---- MODULE Spec2Model ----
(***************************************************************************)
(* PDFMerger: a browser page that takes PDF files, keeps them in an        *)
(* ordered registry (pdfFiles), lets the user remove and reorder them and  *)
(* merges them into one document.  The repository holds two revisions of   *)
(* the program:                                                            *)
(*   "secure" : class SecurePDFMerger of src/unnamed/part_000              *)
(*   "plain"  : the script functions of src/app.js lines 318-535           *)
(* The variable variant says which revision a behaviour is a run of.       *)
(***************************************************************************)
EXTENDS Integers, Sequences, FiniteSets, TLC

VARIABLES
    variant,            \* "secure" | "plain"
    scenario,           \* the input configuration of the run (see Scenarios)
    pdfFiles,           \* the registry: sequence of [file, pageCount]
    totalPages,         \* this.totalPages (secure only)
    listeners,          \* click listeners attached to #thumbnailContainer (secure)
    calls,              \* the handleFiles calls in flight
    lastError,          \* message of the last Error caught and reported
    mergeBtnDisabled,   \* #mergeBtn.disabled
    mergeBtnShown,      \* #mergeBtn.style.display is not 'none'
    merges,             \* the mergePDFs calls in flight
    delivered,          \* the merged documents handed to the preview or download
    display,            \* the documents of the thumbnails, in the order of the DOM
    uploaded,           \* the documents sent to a server with fetch
    previewer           \* the SecurePDFPreviewer made by the last merge (secure)

vars == <<variant, scenario, pdfFiles, totalPages, listeners, calls, lastError,
          mergeBtnDisabled, mergeBtnShown, merges, delivered, display, uploaded,
          previewer>>

----------------------------------------------------------------------------
(* Bounds of the model *)

MaxCalls == 2
MaxMerges == 2
MaxBatch == 2
MaxTotalPages == 502
IntakeRegistry == 2
IntakeListeners == 4
PagesRegistry == 6
PagesListeners == 7
OrderRegistry == 3
OrderListeners == 6
MergeRegistry == 2
MergeListeners == 3
MaxNameLen == 5
MaxHeaderLen == 5

----------------------------------------------------------------------------
(* SECURITY_CONFIG *)

MAX_FILE_SIZE == 50 * 1024 * 1024
MAX_TOTAL_SIZE == 200 * 1024 * 1024
MAX_PAGES == 500
MAX_DOCUMENTS == 20
ALLOWED_MIME_TYPES == {"application/pdf"}
ALLOWED_EXTENSIONS == { <<".", "p", "d", "f">> }
PDF_HEADER == <<37, 80, 68, 70>>
MAX_DOC_PAGES == 100

----------------------------------------------------------------------------
(* Error messages *)

MsgExtension == "Invalid file extension"
MsgFileSize == "File size exceeds 50MB limit"
MsgType == "PDF validation failed: Invalid file type"
MsgHeader == "PDF validation failed: Invalid PDF header"
MsgCorrupt == "PDF validation failed: Invalid PDF structure"
MsgTooManyPages == "PDF validation failed: Document has too many pages (n > 100)"   \* n: the page count
MsgTotalPages == "Total pages exceed 500 limit"
MsgTooManyFiles == "Cannot process more than 20 files at once"
MsgTotalSize == "Total files size exceeds 200MB limit"
MsgPreview == "Invalid page request"
MsgPlainCorrupt == "Invalid PDF structure"
MsgNoPdf == "Please select PDF files only."
MsgLoad == "Failed to parse PDF document"
MsgDrive == "Google Drive: enableCloudFeatures is not defined"
MsgPreviewTimeout == "Preview loading timed out"
MsgOneDrive == "OneDrive integration requires additional setup. Please download and upload manually."
NoMsg == "none"

----------------------------------------------------------------------------
(* Candidate files.  name is the sequence of characters of file.name,      *)
(* content the leading bytes of the file, parse/numPages what pdf.js makes *)
(* of the content, preview whether getPage(1) and render succeed, load     *)
(* whether PDFDocument.load of pdf-lib accepts the content.                *)

File(n, s, t, c, p, np, pv, ld) ==
    [name |-> n, size |-> s, type |-> t, content |-> c, parse |-> p,
     numPages |-> np, preview |-> pv, load |-> ld]

PdfBytes == <<37, 80, 68, 70>>

FA == File(<<"a", ".", "p", "d", "f">>, 1024, "application/pdf", PdfBytes, "ok", 1, TRUE, TRUE)
FB == File(<<"B", ".", "P", "D", "F">>, 2048, "application/pdf", PdfBytes, "ok", 100, TRUE, TRUE)
FC == File(<<"c", ".", "p", "d", "f">>, 3072, "application/pdf", PdfBytes, "ok", 2, TRUE, TRUE)
F101 == File(<<"m", ".", "p", "d", "f">>, 4096, "application/pdf", PdfBytes, "ok", 101, TRUE, TRUE)
FReport == File(<<"r", ".", "p", "d", "f">>, 1024, "application/pdf", <<0, 0, 0, 0>>, "ok", 1, TRUE, TRUE)
FNotes == File(<<"n", ".", "t", "x", "t">>, 100, "text/plain", <<72, 101, 108, 108>>, "corrupt", 0, FALSE, FALSE)
FMime == File(<<"x", ".", "p", "d", "f">>, 1024, "text/plain", <<72, 101, 108, 108>>, "corrupt", 0, FALSE, FALSE)
FLarge == File(<<"l", ".", "p", "d", "f">>, MAX_FILE_SIZE + 1, "application/pdf", PdfBytes, "ok", 1, TRUE, TRUE)
FCorrupt == File(<<"k", ".", "p", "d", "f">>, 1024, "application/pdf", PdfBytes, "corrupt", 0, FALSE, FALSE)
FPreview == File(<<"p", ".", "p", "d", "f">>, 1024, "application/pdf", PdfBytes, "ok", 100, FALSE, TRUE)
FEmpty == File(<<"z", ".", "p", "d", "f">>, 0, "application/pdf", <<>>, "corrupt", 0, FALSE, FALSE)
FNoType == File(<<"t", ".", "p", "d", "f">>, 1024, "", PdfBytes, "ok", 1, TRUE, TRUE)
FLocked == File(<<"e", ".", "p", "d", "f">>, 1024, "application/pdf", PdfBytes, "ok", 1, TRUE, FALSE)
FRest == File(<<"s", ".", "p", "d", "f">>, MAX_FILE_SIZE - 3, "application/pdf", PdfBytes, "ok", 1, TRUE, TRUE)
(* a document without pages: pdf.js opens it and getPage(1) is refused *)
FZero == File(<<"o", ".", "p", "d", "f">>, 1024, "application/pdf", PdfBytes, "ok", 0, FALSE, TRUE)
(* a document of exactly MAX_FILE_SIZE bytes and MAX_DOC_PAGES pages *)
FLimit == File(<<"g", ".", "p", "d", "f">>, MAX_FILE_SIZE, "application/pdf", PdfBytes, "ok", 100, TRUE, TRUE)

Files == {FA, FB, F101, FReport, FNotes, FMime, FLarge, FCorrupt, FPreview, FEmpty}
CoreFiles == {FA, FB, FReport}

(* a valid one-page document under a given name *)
Named(name) == File(name, 1024, "application/pdf", PdfBytes, "ok", 1, TRUE, TRUE)

(* the characters of the names tried: the dot, the letters of the allowed   *)
(* extension in both cases, and one other letter                            *)
NameChars == {".", "p", "P", "d", "D", "f", "F", "x"}

(* a file of a few bytes under a valid name: pdf.js finds no document in it *)
Headed(content) ==
    File(<<"h", ".", "p", "d", "f">>, Len(content), "application/pdf", content, "corrupt", 0,
         FALSE, FALSE)

(* the bytes of the contents tried: those of PDF_HEADER and one other *)
HeaderBytes == {37, 80, 68, 70, 0}

RECURSIVE SeqsUpTo(_, _)
SeqsUpTo(S, n) ==
    IF n = 0 THEN {<<>>}
    ELSE LET shorter == SeqsUpTo(S, n - 1)
         IN  shorter \cup {Append(s, x) : s \in shorter, x \in S}

Repeat(f, n) == [k \in 1..n |-> f]

Singles(S) == {<<f>> : f \in S}

(* The input configurations.  Each fixes the batches a run may submit and   *)
(* how far the run goes.                                                    *)
(*   intake : every kind of file, alone and in short batches, and the two   *)
(*            batches around MAX_DOCUMENTS                                  *)
(*   pages  : documents that fill the registry up to MAX_PAGES, submitted   *)
(*            by overlapping calls                                          *)
(*   order  : three different documents to remove and reorder               *)
(*   merge  : small documents to merge                                      *)
(*   fail   : small documents to merge, one of which pdf-lib cannot load    *)
(*   again  : one document, merged by calls of mergePDFs that may overlap   *)
(*   mime   : files with and without a declared type                        *)
(*   size   : batches around MAX_TOTAL_SIZE                                 *)
(*   batch  : batches of several documents, submitted by overlapping calls  *)
(*   names  : one valid document under every name of up to MaxNameLen       *)
(*            characters                                                    *)
Scenarios ==
    {"intake", "pages", "order", "merge", "fail", "again", "mime", "size", "batch",
     "names", "checks", "headers"}

Batches(scn) ==
    CASE scn = "intake" ->
            SeqsUpTo(CoreFiles, MaxBatch) \cup Singles(Files)
              \cup {Repeat(FNotes, MAX_DOCUMENTS), Repeat(FNotes, MAX_DOCUMENTS + 1)}
      [] scn = "pages" -> Singles({FA, FB})
      [] scn = "order" -> Singles({FA, FB, FC}) \cup {<<FA, FB, FC>>}
      [] scn = "merge" -> Singles({FA, FC})
      [] scn = "fail" -> Singles({FA, FLocked})
      [] scn = "again" -> Singles({FA})
      [] scn = "mime" -> Singles({FA, FNoType, FMime})
      [] scn = "size" -> Singles({FA}) \cup {Repeat(FLarge, 4), <<FLarge, FLarge, FLarge, FRest>>}
      [] scn = "batch" -> {<<FA, FCorrupt, FC>>, <<FC, FA>>}
      [] scn = "names" -> {<<Named(name)>> : name \in SeqsUpTo(NameChars, MaxNameLen)}
      [] scn = "checks" ->
            Singles({FA, FB, F101, FReport, FNotes, FLarge, FEmpty, FNoType, FZero, FLimit})
      [] scn = "headers" ->
            {<<Headed(content)>> : content \in SeqsUpTo(HeaderBytes, MaxHeaderLen)}

(* calls of handleFiles that may be in flight together: the calls overlap   *)
(* in the pages and batch configurations and follow one another in the      *)
(* others                                                                   *)
CallsOf(scn) == IF scn \in {"pages", "batch"} THEN MaxCalls ELSE 1

(* calls of mergePDFs that may be in flight together *)
MergesOf(scn) == IF scn = "again" THEN MaxMerges ELSE 1

RegistryBound(scn) ==
    CASE scn = "intake" -> IntakeRegistry
      [] scn \in {"pages", "batch"} -> PagesRegistry
      [] scn = "order" -> OrderRegistry
      [] scn \in {"merge", "fail", "again"} -> MergeRegistry
      [] scn \in {"mime", "size", "names", "checks", "headers"} -> IntakeRegistry

ListenersBound(scn) ==
    CASE scn = "intake" -> IntakeListeners
      [] scn \in {"pages", "batch"} -> PagesListeners
      [] scn = "order" -> OrderListeners
      [] scn \in {"merge", "fail", "again"} -> MergeListeners
      [] scn \in {"mime", "size", "names", "checks", "headers"} -> IntakeListeners

----------------------------------------------------------------------------
(* SecurityUtils *)

ToLowerCase(c) ==
    CASE c = "A" -> "a" [] c = "B" -> "b" [] c = "D" -> "d" [] c = "F" -> "f"
      [] c = "P" -> "p" [] c = "T" -> "t" [] c = "X" -> "x"
      [] OTHER -> c

SliceLast(s, n) == IF Len(s) <= n THEN s ELSE SubSeq(s, Len(s) - n + 1, Len(s))

(* faulty variant: the name is compared as it is written *)
ExtensionAsWritten(file) == SliceLast(file.name, 4)

Extension(file) == SliceLast([k \in 1..Len(file.name) |-> ToLowerCase(file.name[k])], 4)

(* faulty variant: the size of the file is not looked at *)
validateFileBasicNoSize(file) ==
    IF Extension(file) \notin ALLOWED_EXTENSIONS THEN MsgExtension
    ELSE "ok"

validateFileBasic(file) ==
    IF Extension(file) \notin ALLOWED_EXTENSIONS THEN MsgExtension
    ELSE IF file.size > MAX_FILE_SIZE THEN MsgFileSize
    ELSE "ok"

readFileHeader(file) == SliceLast(SubSeq(file.content, 1, IF Len(file.content) < 4 THEN Len(file.content) ELSE 4), 4)

(* faulty variant: only the number of bytes read is checked *)
HeaderMatchesLength(header) == Len(header) = 4

HeaderMatches(header) == \A k \in 1..Len(header) : header[k] = PDF_HEADER[k]

(* faulty variant: a document of exactly 100 pages is refused *)
TooManyPagesAtLimit(numPages) == numPages >= MAX_DOC_PAGES

TooManyPages(numPages) == numPages > MAX_DOC_PAGES

validateFileAdvanced(file) ==
    IF file.type # "" /\ file.type \notin ALLOWED_MIME_TYPES THEN MsgType
    ELSE IF ~HeaderMatches(readFileHeader(file)) THEN MsgHeader
    ELSE IF file.parse # "ok" THEN MsgCorrupt
    ELSE IF TooManyPages(file.numPages) THEN MsgTooManyPages
    ELSE "ok"

----------------------------------------------------------------------------
(* Helpers on the registry *)

Doc(file) == [file |-> file, pageCount |-> file.numPages]

RECURSIVE SumPages(_)
SumPages(docs) ==
    IF docs = <<>> THEN 0 ELSE Head(docs).pageCount + SumPages(Tail(docs))

RECURSIVE SumSize(_)
SumSize(files) ==
    IF files = <<>> THEN 0 ELSE Head(files).size + SumSize(Tail(files))

Splice(s, index) == SubSeq(s, 1, index) \o SubSeq(s, index + 2, Len(s))

Swap(s, i, j) == [s EXCEPT ![i] = s[j], ![j] = s[i]]

Idle == [batch |-> <<>>, i |-> 0, pc |-> "idle"]

(* snap and touched are history: the registry when the merge was started,   *)
(* and whether the registry has changed since                               *)
MergeIdle ==
    [pc |-> "idle", i |-> 0, cur |-> <<>>, out |-> <<>>, touched |-> FALSE, snap |-> <<>>]

(* What the calls in flight can still add: documents, and pages counted *)
Acceptable(file) ==
    /\ file.parse = "ok"
    /\ file.preview
    /\ variant = "secure" =>
          validateFileBasic(file) = "ok" /\ validateFileAdvanced(file) = "ok"

RECURSIVE SumNumPages(_)
SumNumPages(files) ==
    IF files = <<>> THEN 0
    ELSE (IF Head(files).parse = "ok" THEN Head(files).numPages ELSE 0)
         + SumNumPages(Tail(files))

PendingDocsOf(c) ==
    IF c.pc = "idle" THEN 0
    ELSE Cardinality({k \in c.i..Len(c.batch) : Acceptable(c.batch[k])})

PendingPagesOf(c) ==
    IF c.pc = "idle" THEN 0
    ELSE SumNumPages(SubSeq(c.batch, IF c.pc = "process" THEN c.i + 1 ELSE c.i, Len(c.batch)))

RECURSIVE PendingDocs(_, _)
PendingDocs(cs, p) == IF p = 0 THEN 0 ELSE PendingDocsOf(cs[p]) + PendingDocs(cs, p - 1)

RECURSIVE PendingPages(_, _)
PendingPages(cs, p) == IF p = 0 THEN 0 ELSE PendingPagesOf(cs[p]) + PendingPages(cs, p - 1)

WithinBounds(cs, reg, tp, ls) ==
    /\ Len(reg) + PendingDocs(cs, MaxCalls) <= RegistryBound(scenario)
    /\ variant = "secure" =>
          ls + PendingDocs(cs, MaxCalls) <= ListenersBound(scenario)
    /\ variant = "secure" =>
          tp + PendingPages(cs, MaxCalls) <= MaxTotalPages

(* a change of the registry while a merge is in flight is noted in the merge *)
Touch(ms) ==
    [m \in DOMAIN ms |->
        IF ms[m].pc = "idle" THEN ms[m] ELSE [ms[m] EXCEPT !.touched = TRUE]]

(* part_000:394-404, 445-452: a previewer without a document, its modal     *)
(* closed and no timer set                                                  *)
NoPreview == [mergedPdfBlob |-> <<>>, shown |-> FALSE, loadTimeout |-> FALSE]

----------------------------------------------------------------------------
InitIn(variants, scn) ==
    /\ variant \in variants
    /\ scenario = scn
    /\ pdfFiles = <<>>
    /\ totalPages = 0
    /\ listeners = 0
    /\ calls = [p \in 1..MaxCalls |-> Idle]
    /\ lastError = NoMsg
    /\ mergeBtnDisabled = TRUE
    /\ mergeBtnShown = TRUE
    /\ merges = [m \in 1..MaxMerges |-> MergeIdle]
    /\ delivered = <<>>
    /\ display = <<>>
    /\ uploaded = <<>>
    /\ previewer = NoPreview

Init == InitIn({"secure", "plain"}, "merge")
InitIntake == InitIn({"secure", "plain"}, "intake")
InitPages == InitIn({"secure"}, "pages")
InitOrder == InitIn({"secure", "plain"}, "order")
InitFail == InitIn({"secure", "plain"}, "fail")
InitAgain == InitIn({"secure", "plain"}, "again")
InitMime == InitIn({"secure", "plain"}, "mime")
InitSize == InitIn({"secure"}, "size")
InitBatch == InitIn({"secure", "plain"}, "batch")
InitNames == InitIn({"secure"}, "names")
InitChecks == InitIn({"secure"}, "checks")
InitHeaders == InitIn({"secure"}, "headers")

----------------------------------------------------------------------------
(* renderThumbnails: rebuilds the thumbnails from pdfFiles.  The secure     *)
(* revision also attaches one more click listener to the container, which   *)
(* is never removed; the plain revision puts its listeners on the buttons   *)
(* it has just created.                                                     *)

renderThumbnails(ls) == IF variant = "secure" THEN ls + 1 ELSE ls

----------------------------------------------------------------------------
(* handleFiles *)

(* faulty variant: the count check lets one more file through *)
TooManyFilesOffByOne(fileArray) == Len(fileArray) > MAX_DOCUMENTS + 1

TooManyFiles(fileArray) == Len(fileArray) > MAX_DOCUMENTS

(* faulty variant: a batch of exactly the ceiling is refused *)
TotalSizeExceededAtLimit(fileArray) == SumSize(fileArray) >= MAX_TOTAL_SIZE

TotalSizeExceeded(fileArray) == SumSize(fileArray) > MAX_TOTAL_SIZE

(* faulty variant: the total may pass the ceiling by one page *)
TotalPagesExceededOffByOne(tp) == tp > MAX_PAGES + 1

TotalPagesExceeded(tp) == tp > MAX_PAGES

FreeSlot(p) ==
    /\ p <= CallsOf(scenario)
    /\ calls[p].pc = "idle"
    /\ \A q \in 1..(p - 1) : calls[q].pc # "idle"

(* The for loop of handleFiles reaches file number i of call p: past the    *)
(* last file the call ends, and enables the merge button when the registry  *)
(* is not empty.                                                            *)
LoopTo(p, batch, i, reg, first) ==
    IF i > Len(batch)
    THEN /\ calls' = [calls EXCEPT ![p] = Idle]
         /\ mergeBtnDisabled' = IF Len(reg) > 0 THEN FALSE ELSE mergeBtnDisabled
    ELSE /\ calls' = [calls EXCEPT ![p] = [batch |-> batch, i |-> i, pc |-> first]]
         /\ UNCHANGED mergeBtnDisabled

(* part_000:167-185: a drop or a file selection calls handleFiles(files) *)
HandleFiles(p, files) ==
    /\ variant = "secure"
    /\ FreeSlot(p)
    /\ UNCHANGED <<variant, scenario, pdfFiles, totalPages, listeners,
                   mergeBtnShown, merges, delivered, previewer, display, uploaded>>
    /\ IF TooManyFiles(files)
       THEN /\ lastError' = MsgTooManyFiles
            /\ UNCHANGED <<calls, mergeBtnDisabled>>
       ELSE IF TotalSizeExceeded(files)
       THEN /\ lastError' = MsgTotalSize
            /\ UNCHANGED <<calls, mergeBtnDisabled>>
       ELSE /\ LoopTo(p, files, 1, pdfFiles, "validate")
            /\ UNCHANGED lastError
            /\ WithinBounds(calls', pdfFiles, totalPages, listeners)

(* the inner catch reports the error and throws it again; the outer catch   *)
(* ends the call                                                            *)
Reject(p, msg) ==
    /\ calls' = [calls EXCEPT ![p] = Idle]
    /\ lastError' = msg

(* part_000:186-202: validateFileBasic and validateFileAdvanced have        *)
(* answered; the page count is added to totalPages and the total checked.   *)
Validate(p) ==
    /\ variant = "secure"
    /\ calls[p].pc = "validate"
    /\ LET file == calls[p].batch[calls[p].i]
           basic == validateFileBasic(file)
           advanced == validateFileAdvanced(file)
       IN  IF basic # "ok"
           THEN Reject(p, basic) /\ UNCHANGED totalPages
           ELSE IF advanced # "ok"
           THEN Reject(p, advanced) /\ UNCHANGED totalPages
           ELSE /\ totalPages' = totalPages + file.numPages
                /\ IF TotalPagesExceeded(totalPages')
                   THEN Reject(p, MsgTotalPages)
                   ELSE /\ calls' = [calls EXCEPT ![p].pc = "process"]
                        /\ UNCHANGED lastError
    /\ UNCHANGED <<variant, scenario, pdfFiles, listeners, mergeBtnDisabled,
                   mergeBtnShown, merges, delivered, previewer, display, uploaded>>

(* faulty variant: the document is put at the front of the registry *)
ProcessUnshift(p) ==
    /\ variant = "secure"
    /\ calls[p].pc = "process"
    /\ LET file == calls[p].batch[calls[p].i]
       IN  IF ~file.preview
           THEN /\ Reject(p, MsgPreview)
                /\ UNCHANGED <<pdfFiles, listeners, mergeBtnDisabled, merges, display>>
           ELSE /\ pdfFiles' = <<Doc(file)>> \o pdfFiles
                /\ listeners' = renderThumbnails(listeners)
                /\ display' = pdfFiles'
                /\ merges' = Touch(merges)
                /\ LoopTo(p, calls[p].batch, calls[p].i + 1, pdfFiles', "validate")
                /\ UNCHANGED lastError
    /\ UNCHANGED <<variant, scenario, totalPages, mergeBtnShown, delivered, previewer, uploaded>>

(* part_000:204-245: the thumbnail of page 1 is rendered, the document is   *)
(* pushed and the thumbnails are redrawn; then the loop goes on.            *)
Process(p) ==
    /\ variant = "secure"
    /\ calls[p].pc = "process"
    /\ LET file == calls[p].batch[calls[p].i]
       IN  IF ~file.preview
           THEN /\ Reject(p, MsgPreview)
                /\ UNCHANGED <<pdfFiles, listeners, mergeBtnDisabled, merges, display>>
           ELSE /\ pdfFiles' = Append(pdfFiles, Doc(file))
                /\ listeners' = renderThumbnails(listeners)
                /\ display' = pdfFiles'
                /\ merges' = Touch(merges)
                /\ LoopTo(p, calls[p].batch, calls[p].i + 1, pdfFiles', "validate")
                /\ UNCHANGED lastError
    /\ UNCHANGED <<variant, scenario, totalPages, mergeBtnShown, delivered, previewer, uploaded>>

(* app.js:351-398: the plain handleFiles keeps the files whose declared     *)
(* type is application/pdf and processes each in its own try/catch.         *)
IsPdfType(file) == file.type = "application/pdf"

PlainHandleFiles(p, files) ==
    /\ variant = "plain"
    /\ FreeSlot(p)
    /\ UNCHANGED <<variant, scenario, pdfFiles, totalPages, listeners,
                   mergeBtnShown, merges, delivered, previewer, display, uploaded>>
    /\ LET pdfFilesArray == SelectSeq(files, IsPdfType)
       IN  IF Len(pdfFilesArray) = 0
           THEN /\ lastError' = MsgNoPdf
                /\ UNCHANGED <<calls, mergeBtnDisabled>>
           ELSE /\ LoopTo(p, pdfFilesArray, 1, pdfFiles, "process")
                /\ UNCHANGED lastError
                /\ WithinBounds(calls', pdfFiles, totalPages, listeners)

PlainProcess(p) ==
    /\ variant = "plain"
    /\ calls[p].pc = "process"
    /\ LET file == calls[p].batch[calls[p].i]
       IN  /\ IF file.parse = "ok" /\ file.preview
              THEN /\ pdfFiles' = Append(pdfFiles, Doc(file))
                   /\ display' = pdfFiles'
                   /\ merges' = Touch(merges)
                   /\ UNCHANGED lastError
              ELSE /\ lastError' = IF file.parse = "ok" THEN MsgPreview ELSE MsgPlainCorrupt
                   /\ UNCHANGED <<pdfFiles, merges, display>>
           /\ LoopTo(p, calls[p].batch, calls[p].i + 1, pdfFiles', "process")
    /\ UNCHANGED <<variant, scenario, totalPages, listeners, mergeBtnShown,
                   delivered, previewer, uploaded>>

----------------------------------------------------------------------------
(* Clicks on the buttons of a thumbnail.  index is the data-index of the    *)
(* button, 0-based as in the code.  In the secure revision every listener   *)
(* attached so far runs, one after the other, on the same click.            *)

(* faulty variant: the page count of the first document is subtracted *)
RemoveOneFirstCount(s, index) ==
    [reg |-> Splice(s.reg, index),
     tp  |-> s.tp - s.reg[1].pageCount,
     ls  |-> renderThumbnails(s.ls),
     btn |-> IF Len(s.reg) = 1 THEN TRUE ELSE s.btn,
     dsp |-> Splice(s.reg, index),
     err |-> s.err]

RemoveOne(s, index) ==
    [reg |-> Splice(s.reg, index),
     tp  |-> s.tp - s.reg[index + 1].pageCount,
     ls  |-> renderThumbnails(s.ls),
     btn |-> IF Len(s.reg) = 1 THEN TRUE ELSE s.btn,
     dsp |-> Splice(s.reg, index),
     err |-> s.err]

(* one listener: when pdfFiles[index] is undefined, reading its pageCount   *)
(* throws a TypeError that nothing catches, before anything is changed      *)
RemoveListener(s, index) ==
    IF index + 1 <= Len(s.reg) THEN RemoveOne(s, index) ELSE [s EXCEPT !.err = TRUE]

(* the k listeners in turn *)
RECURSIVE RemoveHandlers(_, _, _)
RemoveHandlers(k, s, index) ==
    IF k = 0 THEN s ELSE RemoveHandlers(k - 1, RemoveListener(s, index), index)

(* faulty variant: the document is copied over its neighbour, not swapped *)
MoveUpOneOverwrites(s, index) ==
    IF index > 0
    THEN [s EXCEPT !.reg = [s.reg EXCEPT ![index] = s.reg[index + 1]],
                   !.ls = renderThumbnails(s.ls),
                   !.dsp = [s.reg EXCEPT ![index] = s.reg[index + 1]]]
    ELSE s

MoveUpOne(s, index) ==
    IF index > 0
    THEN [s EXCEPT !.reg = Swap(s.reg, index + 1, index), !.ls = renderThumbnails(s.ls),
                   !.dsp = Swap(s.reg, index + 1, index)]
    ELSE s

(* faulty variant: the move-down branch is a copy of the move-up branch *)
MoveDownOneAsUp(s, index) ==
    IF index > 0
    THEN [s EXCEPT !.reg = Swap(s.reg, index + 1, index), !.ls = renderThumbnails(s.ls),
                   !.dsp = Swap(s.reg, index + 1, index)]
    ELSE s

MoveDownOne(s, index) ==
    IF index < Len(s.reg) - 1
    THEN [s EXCEPT !.reg = Swap(s.reg, index + 1, index + 2), !.ls = renderThumbnails(s.ls),
                   !.dsp = Swap(s.reg, index + 1, index + 2)]
    ELSE s

RECURSIVE MoveUpHandlers(_, _, _)
MoveUpHandlers(k, s, index) ==
    IF k = 0 THEN s ELSE MoveUpHandlers(k - 1, MoveUpOne(s, index), index)

RECURSIVE MoveDownHandlers(_, _, _)
MoveDownHandlers(k, s, index) ==
    IF k = 0 THEN s ELSE MoveDownHandlers(k - 1, MoveDownOne(s, index), index)

Now == [reg |-> pdfFiles, tp |-> totalPages, ls |-> listeners, btn |-> mergeBtnDisabled,
        dsp |-> display, err |-> FALSE]

(* how many listeners answer a click in state s *)
HandlersAt(s) == IF variant = "secure" THEN s.ls ELSE 1

Become(s) ==
    /\ pdfFiles' = s.reg
    /\ totalPages' = IF variant = "secure" THEN s.tp ELSE totalPages
    /\ listeners' = s.ls
    /\ mergeBtnDisabled' = s.btn
    /\ display' = s.dsp
    /\ merges' = IF s.reg = pdfFiles THEN merges ELSE Touch(merges)
    /\ WithinBounds(calls, s.reg, totalPages', s.ls)
    /\ UNCHANGED <<variant, scenario, calls, lastError, mergeBtnShown, delivered, previewer, uploaded>>

RemoveClick(index) ==
    /\ index \in 0..(Len(pdfFiles) - 1)
    /\ Become(RemoveHandlers(HandlersAt(Now), Now, index))

(* The window's beforeunload handler.  The event is fired when a navigation *)
(* starts, and the page stays when the navigation does not replace it (the  *)
(* mailto: address that sendViaEmail assigns to window.location, a          *)
(* navigation that is cancelled): the calls and merges in flight go on.     *)
(* The thumbnails are not rendered again: a click on one left in the        *)
(* container finds no registry entry behind it and is not modelled.         *)
(* faulty variant: the buffers are dropped and the entries are kept *)
CleanupKeepsEntries ==
    /\ variant = "secure"
    /\ pdfFiles' = [k \in 1..Len(pdfFiles) |-> [pdfFiles[k] EXCEPT !.file.content = <<>>]]
    /\ totalPages' = 0
    /\ merges' = IF pdfFiles = <<>> THEN merges ELSE Touch(merges)
    /\ UNCHANGED <<variant, scenario, listeners, calls, lastError,
                   mergeBtnDisabled, mergeBtnShown, delivered, previewer, display, uploaded>>

Cleanup ==
    /\ variant = "secure"
    /\ pdfFiles' = <<>>
    /\ totalPages' = 0
    /\ merges' = IF pdfFiles = <<>> THEN merges ELSE Touch(merges)
    /\ UNCHANGED <<variant, scenario, listeners, calls, lastError,
                   mergeBtnDisabled, mergeBtnShown, delivered, previewer, display, uploaded>>

MoveUpClick(index) ==
    /\ index \in 0..(Len(pdfFiles) - 1)
    /\ Become(MoveUpHandlers(HandlersAt(Now), Now, index))

MoveDownClick(index) ==
    /\ index \in 0..(Len(pdfFiles) - 1)
    /\ Become(MoveDownHandlers(HandlersAt(Now), Now, index))

----------------------------------------------------------------------------
(* mergePDFs *)

(* the pages pdf-lib finds in the content of a document, in their order *)
Pages(doc) == [k \in 1..doc.file.numPages |-> <<doc.file.name, k>>]

FreeMerge(m) ==
    /\ m <= MergesOf(scenario)
    /\ merges[m].pc = "idle"
    /\ \A q \in 1..(m - 1) : merges[q].pc # "idle"

(* faulty variant: the loop stops one document early *)
MergeLoopDropsLast(mg, i) ==
    IF i < Len(pdfFiles) - 1
    THEN [mg EXCEPT !.pc = "load", !.i = i, !.cur = <<pdfFiles[i + 1]>>]
    ELSE [mg EXCEPT !.pc = "save", !.i = i, !.cur = <<>>]

(* the loop test of mergePDFs, made on the registry as it is now *)
MergeLoop(mg, i) ==
    IF i < Len(pdfFiles)
    THEN [mg EXCEPT !.pc = "load", !.i = i, !.cur = <<pdfFiles[i + 1]>>]
    ELSE [mg EXCEPT !.pc = "save", !.i = i, !.cur = <<>>]

(* the period of the pause: if (i % 3 === 0) await setTimeout *)
Pauses(i) == variant = "secure" /\ i % 3 = 0

(* faulty variant: a rejection of PDFDocument.load is taken for success *)
LoadFailsNever(doc) == FALSE

(* PDFDocument.load rejects the content of the document *)
LoadFails(doc) == ~doc.file.load

(* faulty variant: the merge ends without its finally block *)
MergeEndNoReset(m) ==
    /\ merges' = [merges EXCEPT ![m] = MergeIdle]
    /\ UNCHANGED <<mergeBtnDisabled, mergeBtnShown>>

(* finally: the button is enabled and shown again *)
MergeEnd(m) ==
    /\ merges' = [merges EXCEPT ![m] = MergeIdle]
    /\ mergeBtnDisabled' = FALSE
    /\ mergeBtnShown' = TRUE

(* part_000:336-346, app.js:496-505: a click on the merge button *)
MergePDFs(m) ==
    /\ ~mergeBtnDisabled
    /\ mergeBtnShown
    /\ FreeMerge(m)
    /\ UNCHANGED <<variant, scenario, pdfFiles, totalPages, listeners, calls,
                   lastError, delivered, previewer, display, uploaded>>
    /\ IF variant = "plain" /\ Len(pdfFiles) = 0
       THEN UNCHANGED <<merges, mergeBtnDisabled, mergeBtnShown>>
       ELSE /\ merges' = [merges EXCEPT ![m] =
                            [MergeIdle EXCEPT !.pc = "create", !.snap = pdfFiles]]
            /\ mergeBtnDisabled' = TRUE
            /\ mergeBtnShown' = (variant = "plain")

(* part_000:346-359, app.js:505-512: PDFDocument.create has answered, or a   *)
(* document has been loaded and its pages copied, or the pause is over       *)
MergeStep(m) ==
    /\ merges[m].pc \in {"create", "load", "yield"}
    /\ UNCHANGED <<variant, scenario, pdfFiles, totalPages, listeners, calls,
                   delivered, previewer, display, uploaded>>
    /\ LET mg == merges[m]
       IN  CASE mg.pc = "create" ->
                  /\ merges' = [merges EXCEPT ![m] = MergeLoop(mg, 0)]
                  /\ UNCHANGED <<lastError, mergeBtnDisabled, mergeBtnShown>>
             [] mg.pc = "yield" ->
                  /\ merges' = [merges EXCEPT ![m] = MergeLoop(mg, mg.i + 1)]
                  /\ UNCHANGED <<lastError, mergeBtnDisabled, mergeBtnShown>>
             [] mg.pc = "load" ->
                  IF LoadFails(mg.cur[1])
                  THEN /\ lastError' = MsgLoad
                       /\ MergeEnd(m)
                  ELSE /\ merges' =
                            [merges EXCEPT ![m] =
                                LET copied == [mg EXCEPT !.out = mg.out \o Pages(mg.cur[1])]
                                IN  IF Pauses(mg.i)
                                    THEN [copied EXCEPT !.pc = "yield", !.cur = <<>>]
                                    ELSE MergeLoop(copied, mg.i + 1)]
                       /\ UNCHANGED <<lastError, mergeBtnDisabled, mergeBtnShown>>

(* part_000:420-443: showPreview keeps the document as mergedPdfBlob, opens  *)
(* the modal and sets the 10 s timer.  The plain revision has no preview.   *)
showPreview(mergedPdfBytes) ==
    IF variant = "secure"
    THEN [mergedPdfBlob |-> <<mergedPdfBytes>>, shown |-> TRUE, loadTimeout |-> TRUE]
    ELSE previewer

(* faulty variant: the registry is emptied once the document is delivered *)
MergeSaveClears(m) ==
    /\ merges[m].pc = "save"
    /\ delivered' = <<merges[m].out>>
    /\ previewer' = showPreview(merges[m].out)
    /\ MergeEnd(m)
    /\ pdfFiles' = <<>>
    /\ totalPages' = 0
    /\ UNCHANGED <<variant, scenario, listeners, calls, lastError, display, uploaded>>

(* part_000:373-387, app.js:515-534: save has answered; the bytes go to the  *)
(* preview (secure) or to the download (plain)                               *)
MergeSave(m) ==
    /\ merges[m].pc = "save"
    /\ delivered' = <<merges[m].out>>
    /\ previewer' = showPreview(merges[m].out)
    /\ MergeEnd(m)
    /\ UNCHANGED <<variant, scenario, pdfFiles, totalPages, listeners, calls, lastError,
                   display, uploaded>>

----------------------------------------------------------------------------
(* A drag of thumbnail number from onto the place before the to-th of the   *)
(* other thumbnails (to = their number: the end).  app.js:420-441: dragstart *)
(* marks the thumbnail 'dragging' and dragover moves it in the container;    *)
(* pdfFiles is not touched.  part_000:308-318: no handler ever sets the      *)
(* class, querySelector answers null, and appendChild/insertBefore throw.    *)
MoveTo(s, from, to) ==
    LET others == SubSeq(s, 1, from - 1) \o SubSeq(s, from + 1, Len(s))
    IN  SubSeq(others, 1, to) \o <<s[from]>> \o SubSeq(others, to + 1, Len(others))

Drag(from, to) ==
    /\ from \in 1..Len(display)
    /\ to \in 0..(Len(display) - 1)
    /\ display' = IF variant = "plain" THEN MoveTo(display, from, to) ELSE display
    /\ UNCHANGED <<variant, scenario, pdfFiles, totalPages, listeners, calls, lastError,
                   mergeBtnDisabled, mergeBtnShown, merges, delivered, previewer, uploaded>>

(* The dragover listener of the container.  The thumbnails are laid out in  *)
(* rows of perRow (the container wraps); a row is 2 units high, so the      *)
(* vertical midpoint of the k-th thumbnail of the container is at           *)
(* box.top + box.height / 2 = 2 * row + 1.  y is e.clientY.                 *)
Mid(k, perRow) == 2 * ((k - 1) \div perRow) + 1

(* querySelectorAll('.thumbnail:not(.dragging)'): the places, in the        *)
(* container, of the thumbnails that do not carry the class.  Only the      *)
(* plain revision puts the class on the dragged thumbnail.                  *)
NotDragging(dsp, from) ==
    SelectSeq([k \in 1..Len(dsp) |-> k], LAMBDA k : ~(variant = "plain" /\ k = from))

(* the reduce of getDragAfterElement over elements k.. of the list; closest *)
(* is the accumulator, element 0 standing for the initial value without an  *)
(* element, whose offset is Number.NEGATIVE_INFINITY                        *)
RECURSIVE Closest(_, _, _, _, _)
Closest(elements, y, perRow, k, closest) ==
    IF k > Len(elements) THEN closest
    ELSE LET offset == y - Mid(elements[k], perRow)
         IN  Closest(elements, y, perRow, k + 1,
                     IF offset < 0 /\ (closest.element = 0 \/ offset > closest.offset)
                     THEN [offset |-> offset, element |-> elements[k]]
                     ELSE closest)

(* the place of the element returned, 0 for undefined *)
getDragAfterElement(dsp, from, y, perRow) ==
    Closest(NotDragging(dsp, from), y, perRow, 1, [offset |-> 0, element |-> 0]).element

(* one run of the listener.  In the secure revision querySelector finds no  *)
(* element of class 'dragging': appendChild(null) and insertBefore(null, x) *)
(* throw a TypeError and the container stays as it is.                      *)
DragOverOne(dsp, from, y, perRow) ==
    LET afterElement == getDragAfterElement(dsp, from, y, perRow)
    IN  IF variant = "secure" THEN [dsp |-> dsp, err |-> TRUE]
        ELSE IF afterElement = 0
        THEN [dsp |-> MoveTo(dsp, from, Len(dsp) - 1), err |-> FALSE]
        ELSE [dsp |-> MoveTo(dsp, from,
                             IF afterElement > from THEN afterElement - 2
                             ELSE afterElement - 1),
              err |-> FALSE]

DragOver(from, y, perRow) ==
    /\ from \in 1..Len(display)
    /\ display' = DragOverOne(display, from, y, perRow).dsp
    /\ UNCHANGED <<variant, scenario, pdfFiles, totalPages, listeners, calls, lastError,
                   mergeBtnDisabled, mergeBtnShown, merges, delivered, previewer, uploaded>>

----------------------------------------------------------------------------
(* The buttons of the preview (part_000:454-584), live once showPreview has *)
(* been given a merged document.                                            *)

(* part_000:494-565: any of enableCloudFeatures (not defined in the sources), *)
(* loadGAPI and authenticateGoogle may fail, and the error is shown; when    *)
(* all succeed the merged document is posted to www.googleapis.com           *)
SaveToGoogleDrive ==
    /\ variant = "secure"
    /\ previewer.mergedPdfBlob # <<>>
    /\ \/ lastError' = MsgDrive /\ UNCHANGED uploaded
       \/ uploaded' = previewer.mergedPdfBlob /\ UNCHANGED lastError
    /\ UNCHANGED <<variant, scenario, pdfFiles, totalPages, listeners, calls,
                   mergeBtnDisabled, mergeBtnShown, merges, delivered, previewer, display>>

PreviewButtons == {"download", "print", "onedrive", "email", "whatsapp"}

(* download and print hand a blob: URL of the document to the browser,     *)
(* OneDrive shows a message, email and WhatsApp open an address that        *)
(* carries a fixed text                                                     *)
PreviewClick(button) ==
    /\ variant = "secure"
    /\ previewer.mergedPdfBlob # <<>>
    /\ lastError' = IF button = "onedrive" THEN MsgOneDrive ELSE lastError
    /\ UNCHANGED <<variant, scenario, pdfFiles, totalPages, listeners, calls,
                   mergeBtnDisabled, mergeBtnShown, merges, delivered, previewer, display, uploaded>>

(* part_000:445-452: closePreview clears the timer, hides the modal and     *)
(* drops the document                                                       *)
closePreview == NoPreview

(* part_000:432-438: the timer of showPreview fires.  Whether the iframe    *)
(* holds an embed element by then is the browser's affair: when it does,    *)
(* nothing happens, when it does not, the error is shown and the preview    *)
(* is closed.                                                               *)
PreviewTimeout(loaded) ==
    /\ previewer.loadTimeout
    /\ IF loaded
       THEN /\ previewer' = [previewer EXCEPT !.loadTimeout = FALSE]
            /\ UNCHANGED lastError
       ELSE /\ lastError' = MsgPreviewTimeout
            /\ previewer' = closePreview
    /\ UNCHANGED <<variant, scenario, pdfFiles, totalPages, listeners, calls,
                   mergeBtnDisabled, mergeBtnShown, merges, delivered, display, uploaded>>

(* part_000:417: a click on the cancel button of the modal *)
CancelClick ==
    /\ previewer.shown
    /\ previewer' = closePreview
    /\ UNCHANGED <<variant, scenario, pdfFiles, totalPages, listeners, calls, lastError,
                   mergeBtnDisabled, mergeBtnShown, merges, delivered, display, uploaded>>

----------------------------------------------------------------------------
NextSecure ==
    \/ \E p \in 1..MaxCalls, files \in Batches(scenario) : HandleFiles(p, files)
    \/ \E p \in 1..MaxCalls : Validate(p)
    \/ \E p \in 1..MaxCalls : Process(p)
    \/ \E index \in 0..(Len(pdfFiles) - 1) : RemoveClick(index)
    \/ \E index \in 0..(Len(pdfFiles) - 1) : MoveUpClick(index)
    \/ \E index \in 0..(Len(pdfFiles) - 1) : MoveDownClick(index)
    \/ Cleanup

(* drops and file selections only *)
NextIntake ==
    \/ \E p \in 1..MaxCalls, files \in Batches(scenario) : HandleFiles(p, files)
    \/ \E p \in 1..MaxCalls : Validate(p)
    \/ \E p \in 1..MaxCalls : Process(p)
    \/ \E p \in 1..MaxCalls, files \in Batches(scenario) : PlainHandleFiles(p, files)
    \/ \E p \in 1..MaxCalls : PlainProcess(p)

(* a file is selected when no call is in flight, and validated *)
NextNames ==
    \/ /\ \E q \in 1..MaxCalls : FreeSlot(q)
       /\ \E p \in 1..MaxCalls, files \in Batches(scenario) : HandleFiles(p, files)
    \/ \E p \in 1..MaxCalls : Validate(p)

NextRegistry ==
    \/ NextSecure
    \/ \E p \in 1..MaxCalls, files \in Batches(scenario) : PlainHandleFiles(p, files)
    \/ \E p \in 1..MaxCalls : PlainProcess(p)

Next ==
    \/ NextRegistry
    \/ \E m \in 1..MaxMerges : MergePDFs(m)
    \/ \E m \in 1..MaxMerges : MergeStep(m)
    \/ \E m \in 1..MaxMerges : MergeSave(m)

NextDrag ==
    \/ NextRegistry
    \/ \E from \in 1..Len(display), to \in 0..(Len(display) - 1) : Drag(from, to)

(* the pointer is at one of the heights 0 .. 2 * OrderRegistry, over a       *)
(* container that holds 1 .. OrderRegistry thumbnails in a row              *)
NextDragOver ==
    \/ NextRegistry
    \/ \E from \in 1..Len(display), y \in 0..(2 * OrderRegistry),
          perRow \in 1..OrderRegistry : DragOver(from, y, perRow)

(* every operation on the registry, the merge, and the drag of a thumbnail *)
(* from dragstart to dragend, wherever its dragover events put it           *)
NextAll ==
    \/ Next
    \/ \E from \in 1..Len(display), to \in 0..(Len(display) - 1) : Drag(from, to)

NextShare ==
    \/ Next
    \/ SaveToGoogleDrive
    \/ \E button \in PreviewButtons : PreviewClick(button)

NextPreview ==
    \/ NextShare
    \/ \E loaded \in BOOLEAN : PreviewTimeout(loaded)
    \/ CancelClick

(* the promises of pdf-lib settle and the timer of the pause fires *)
MergeProgress ==
    \A m \in 1..MaxMerges : WF_vars(MergeStep(m)) /\ WF_vars(MergeSave(m))

Spec == Init /\ [][Next]_vars
SpecFail == InitFail /\ [][Next]_vars
SpecAgain == InitAgain /\ [][Next]_vars
SpecLive == InitFail /\ [][Next]_vars /\ MergeProgress
SpecMime == InitMime /\ [][NextRegistry]_vars
SpecSize == InitSize /\ [][NextSecure]_vars
SpecDrag == InitOrder /\ [][NextDrag]_vars
SpecDragOver == InitOrder /\ [][NextDragOver]_vars
SpecAll == Init /\ [][NextAll]_vars
SpecPreview == Init /\ [][NextPreview]_vars
SpecShare == Init /\ [][NextShare]_vars
SpecIntake == InitIntake /\ [][NextRegistry]_vars
SpecPages == InitPages /\ [][NextSecure]_vars
SpecOrder == InitOrder /\ [][NextRegistry]_vars
SpecBatch == InitBatch /\ [][NextIntake]_vars
SpecNames == InitNames /\ [][NextNames]_vars
SpecChecks == InitChecks /\ [][NextSecure]_vars
SpecHeaders == InitHeaders /\ [][NextNames]_vars

----------------------------------------------------------------------------
(* Properties *)

(* the step in which call p hears the verdict on the file it is validating *)
Validating(p) == calls[p].pc = "validate" /\ calls'[p] # calls[p]

FileOf(p) == calls[p].batch[calls[p].i]

StartsWithPdf(file) ==
    Len(file.content) >= 4 /\ SubSeq(file.content, 1, 4) = <<37, 80, 68, 70>>

EndsInPdf(file) ==
    /\ Len(file.name) >= 4
    /\ [k \in 1..4 |-> ToLowerCase(file.name[Len(file.name) - 4 + k])] = <<".", "p", "d", "f">>

RECURSIVE PagesInOrder(_)
PagesInOrder(docs) ==
    IF docs = <<>> THEN <<>>
    ELSE [k \in 1..Head(docs).pageCount |-> <<Head(docs).file.name, k>>]
         \o PagesInOrder(Tail(docs))

(* C1: a merge that runs to completion while no document is added, removed  *)
(* or moved delivers the pages of the registry documents, documents in      *)
(* registry order and pages in their own order, so as many pages as the     *)
(* page counts of the registry add up to.                                   *)
C1_MergeIsConcatenation ==
    [][\A m \in 1..MaxMerges :
          (merges[m].pc = "save" /\ merges'[m].pc = "idle" /\ ~merges[m].touched)
             => /\ delivered' = <<PagesInOrder(pdfFiles)>>
                /\ Len(delivered'[1]) = SumPages(pdfFiles)]_vars

C1_Witness ==
    \E m \in 1..MaxMerges :
        /\ merges[m].pc = "save"
        /\ ~merges[m].touched
        /\ Len(pdfFiles) >= 2
        /\ pdfFiles[1] # pdfFiles[2]
        /\ merges[m].out = PagesInOrder(pdfFiles)

(* C2: within one batch, the rejection of a file does not stop the files    *)
(* after it: a call of handleFiles ends only when no later file of its      *)
(* batch would pass all checks.                                             *)
PassesAllChecks(file, tp) ==
    /\ EndsInPdf(file)
    /\ file.size <= MAX_FILE_SIZE
    /\ file.type \in {"", "application/pdf"}
    /\ StartsWithPdf(file)
    /\ file.parse = "ok"
    /\ file.numPages <= 100
    /\ tp + file.numPages <= 500
    /\ file.preview

C2_RejectionDoesNotStopBatch ==
    [][\A p \in 1..MaxCalls :
          (calls[p].pc # "idle" /\ calls'[p].pc = "idle")
             => \A k \in (calls[p].i + 1)..Len(calls[p].batch) :
                    ~PassesAllChecks(calls[p].batch[k], totalPages')]_vars

(* C3: rejecting a file leaves the registry and totalPages as they were.    *)
C3_RejectionChangesNothing ==
    [][\A p \in 1..MaxCalls :
          (calls[p].pc # "idle" /\ calls'[p].pc = "idle" /\ Len(pdfFiles') = Len(pdfFiles))
             => (pdfFiles' = pdfFiles /\ totalPages' = totalPages)]_vars

(* C4: a structurally valid document whose pages would bring the running    *)
(* total above 500 is rejected and not added, and the registry keeps every  *)
(* document accepted before it.                                             *)
C4_AggregateLimitRejects ==
    [][\A p \in 1..MaxCalls :
          (/\ Validating(p)
           /\ validateFileBasic(FileOf(p)) = "ok"
           /\ validateFileAdvanced(FileOf(p)) = "ok"
           /\ totalPages + FileOf(p).numPages > 500)
             => (/\ calls'[p].pc = "idle"
                 /\ lastError' = MsgTotalPages
                 /\ pdfFiles' = pdfFiles)]_vars

C4_Witness ==
    /\ Len(pdfFiles) = 5
    /\ \A k \in 1..5 : pdfFiles[k].pageCount = 100
    /\ lastError = MsgTotalPages
    /\ totalPages = 501

(* C5: the page counts of the registry documents never add up to more than  *)
(* MAX_PAGES, whatever the overlap of the handleFiles calls and whatever    *)
(* was removed.                                                             *)
C5_RegistryWithinMaxPages == SumPages(pdfFiles) <= 500

(* C6: a batch of more than MAX_DOCUMENTS files is refused as a whole,      *)
(* before any file of it is looked at, and leaves the registry and the      *)
(* totals alone; a batch of exactly MAX_DOCUMENTS files goes on to its      *)
(* first file.                                                              *)
C6_TooManyFilesRefused ==
    [][\A p \in 1..MaxCalls, files \in {b \in Batches(scenario) : Len(b) >= 20} :
          HandleFiles(p, files)
             => IF Len(files) > 20
                THEN /\ lastError' = MsgTooManyFiles
                     /\ UNCHANGED <<pdfFiles, totalPages, calls>>
                ELSE Len(files) = 20 => calls'[p].pc = "validate"]_vars

C6_Witness ==
    /\ variant = "secure"
    /\ lastError = MsgTooManyFiles
    /\ Len(pdfFiles) > 0
    /\ \A p \in 1..MaxCalls : calls[p].pc = "idle"

C8_PerDocumentPageLimit ==
    [][\A p \in 1..MaxCalls :
          (/\ Validating(p)
           /\ EndsInPdf(FileOf(p))
           /\ FileOf(p).size <= MAX_FILE_SIZE
           /\ FileOf(p).type \in {"", "application/pdf"}
           /\ StartsWithPdf(FileOf(p))
           /\ FileOf(p).parse = "ok")
             => ((FileOf(p).numPages > 100)
                    <=> (calls'[p].pc = "idle" /\ lastError' = MsgTooManyPages))]_vars

C8_Witness ==
    /\ variant = "secure"
    /\ lastError = MsgTooManyPages
    /\ \E k \in 1..Len(pdfFiles) : pdfFiles[k].pageCount = 100

(* C9: a remove click made when totalPages is the sum of the page counts    *)
(* of the registry leaves totalPages the sum of the page counts of the      *)
(* documents that remain.                                                   *)
C9_RemoveKeepsTotal ==
    [][(Len(pdfFiles') < Len(pdfFiles) /\ totalPages = SumPages(pdfFiles))
          => totalPages' = SumPages(pdfFiles')]_vars

C9_Witness ==
    /\ pdfFiles = <<>>
    /\ totalPages = 0
    /\ listeners = 2
    /\ mergeBtnDisabled
    /\ lastError = NoMsg

(* C10: for a document at neither end of the registry, a click on its       *)
(* move-up button and then one on its move-down button, or down and then    *)
(* up, leave the registry in its original order.                            *)
Tagged == [Now EXCEPT !.reg = [k \in 1..Len(pdfFiles) |-> <<k, pdfFiles[k]>>]]

PlaceOf(s, k) == CHOOSE j \in 1..Len(s.reg) : s.reg[j][1] = k

Untagged(s) == [k \in 1..Len(s.reg) |-> s.reg[k][2]]

C10_UpDownRestoresOrder ==
    \A index \in 1..(Len(pdfFiles) - 2) :
        LET up == MoveUpHandlers(HandlersAt(Tagged), Tagged, index)
            upDown == MoveDownHandlers(HandlersAt(up), up, PlaceOf(up, index + 1) - 1)
            down == MoveDownHandlers(HandlersAt(Tagged), Tagged, index)
            downUp == MoveUpHandlers(HandlersAt(down), down, PlaceOf(down, index + 1) - 1)
        IN  Untagged(upDown) = pdfFiles /\ Untagged(downUp) = pdfFiles

(* the step in which merge m itself goes on *)
MergeMoves(m) ==
    <<merges'[m].pc, merges'[m].i, merges'[m].out>> # <<merges[m].pc, merges[m].i, merges[m].out>>

(* C11: a merge delivers the documents that were in the registry when it    *)
(* was started, in the order they had then, whatever is removed, moved or   *)
(* added while it is suspended.                                             *)
C11_MergeUsesSnapshot ==
    [][\A m \in 1..MaxMerges :
          (merges[m].pc = "save" /\ MergeMoves(m))
             => delivered' = <<PagesInOrder(merges[m].snap)>>]_vars

C13_LoadFailureNoOutput ==
    [][\A m \in 1..MaxMerges :
          (merges[m].pc = "load" /\ MergeMoves(m) /\ ~merges[m].cur[1].file.load)
             => /\ merges'[m].pc = "idle"
                /\ delivered' = delivered
                /\ lastError' = MsgLoad]_vars

C13_Witness ==
    /\ lastError = MsgLoad
    /\ delivered = <<>>
    /\ Len(pdfFiles) = 2
    /\ pdfFiles[1].file.load
    /\ ~pdfFiles[2].file.load
    /\ \A m \in 1..MaxMerges : merges[m].pc = "idle"

(* C14: every merge that has started ends, and when it has ended, with a    *)
(* document or with an error, the merge button is enabled and shown again.  *)
C14_MergeEndsAndResets ==
    \A m \in 1..MaxMerges :
        (merges[m].pc # "idle")
            ~> (merges[m].pc = "idle" /\ ~mergeBtnDisabled /\ mergeBtnShown)

C14_Witness ==
    /\ variant = "secure"
    /\ delivered # <<>>
    /\ lastError = MsgLoad
    /\ \A m \in 1..MaxMerges : merges[m].pc = "idle"
    /\ ~mergeBtnDisabled
    /\ mergeBtnShown

(* C15: after a drag that has put a thumbnail at another place, the         *)
(* registry holds the documents in the order in which they are displayed.   *)
C15_DragReordersRegistry ==
    [][\A from \in 1..OrderRegistry, to \in 0..OrderRegistry :
          (Drag(from, to) /\ display' # display) => pdfFiles' = display']_vars

(* C16: a batch of at most MAX_DOCUMENTS files whose declared sizes sum to  *)
(* more than 200 MiB is refused as a whole before any file of it is looked  *)
(* at: the error is reported, no call is started, the registry and the page *)
(* total stay as they were.  A batch of exactly 200 MiB goes on to the      *)
(* per-file checks.                                                         *)
C16_TotalSizeRefused ==
    [][\A p \in 1..MaxCalls, files \in Batches("size") :
          (HandleFiles(p, files) /\ Len(files) <= MAX_DOCUMENTS)
             => IF SumSize(files) > 200 * 1024 * 1024
                THEN /\ lastError' = MsgTotalSize
                     /\ calls' = calls
                     /\ pdfFiles' = pdfFiles
                     /\ totalPages' = totalPages
                ELSE /\ calls'[p].pc = "validate"
                     /\ calls'[p].batch = files]_vars

C16_Witness ==
    /\ lastError = MsgTotalSize
    /\ Len(pdfFiles) = 1
    /\ totalPages = 1
    /\ \A p \in 1..MaxCalls : calls[p].pc = "idle"

(* C17: a file whose type is empty is not refused for its type: it goes on  *)
(* to the checks that follow and, when its content is a valid document, is  *)
(* validated.  A file whose type is not empty and not application/pdf is    *)
(* refused.                                                                 *)
C17_EmptyTypeNotRefused ==
    [][\A p \in 1..MaxCalls :
          /\ (HandleFiles(p, <<FNoType>>) \/ PlainHandleFiles(p, <<FNoType>>))
                => calls'[p].pc # "idle"
          /\ (Validate(p) /\ FileOf(p) = FNoType) => calls'[p].pc = "process"
          /\ (Validate(p) /\ FileOf(p) = FMime)
                => (lastError' = MsgType /\ calls'[p].pc = "idle")
          /\ PlainHandleFiles(p, <<FMime>>)
                => (lastError' = MsgNoPdf /\ calls' = calls)]_vars

(* C18: when the preview of a validated document cannot be rendered, the    *)
(* document is not put into the registry and the pages that validation      *)
(* counted for it are taken out of totalPages again.                        *)
C18_PreviewFailureKeepsTotals ==
    [][\A p \in 1..MaxCalls :
          (Process(p) /\ ~FileOf(p).preview)
             => /\ pdfFiles' = pdfFiles
                /\ totalPages' = totalPages - FileOf(p).numPages]_vars

(* C19: a remove listener that finds no document at the position of its     *)
(* button does nothing: it throws no error and leaves the registry and      *)
(* totalPages as they were.  The listeners of one click are taken in turn.  *)
C19_StaleRemoveIsSilent ==
    \A index \in 0..(Len(pdfFiles) - 1) :
        \A k \in 0..(HandlersAt(Now) - 1) :
            LET s == RemoveHandlers(k, Now, index)
            IN  index + 1 > Len(s.reg) => RemoveListener(s, index) = s

(* C20: a click on move-up of the first document, and a click on move-down  *)
(* of the last document, leave the registry in the order it had, however    *)
(* many listeners answer the click.                                         *)
C20_BoundaryMovesAreNoOps ==
    Len(pdfFiles) >= 1 =>
        /\ MoveUpHandlers(HandlersAt(Now), Now, 0).reg = pdfFiles
        /\ MoveDownHandlers(HandlersAt(Now), Now, Len(pdfFiles) - 1).reg = pdfFiles

C20_Witness ==
    /\ Len(pdfFiles) = 3
    /\ pdfFiles[1] # pdfFiles[2]
    /\ pdfFiles[2] # pdfFiles[3]
    /\ HandlersAt(Now) >= 3

(* C21: no step of a merge, from the click on the merge button to the       *)
(* delivery of the document or the report of the failure, changes the       *)
(* registry (documents, order, page counts, contents) or totalPages.        *)
C21_MergeReadsOnly ==
    [][\A m \in 1..MaxMerges :
          (MergePDFs(m) \/ MergeStep(m) \/ MergeSave(m))
             => (pdfFiles' = pdfFiles /\ totalPages' = totalPages)]_vars

C21_Witness ==
    /\ variant = "secure"
    /\ Len(pdfFiles) = 2
    /\ totalPages = 2
    /\ delivered = <<Pages(pdfFiles[1])>>
    /\ lastError = MsgLoad
    /\ \A m \in 1..MaxMerges : merges[m].pc = "idle"

(* the reason with which the per-file checks refuse a file when they are    *)
(* applied in the order extension, size, type, signature, parse, pages of   *)
(* the document, pages of the registry; NoMsg when the file passes them     *)
ReasonInOrder(file, tp) ==
    IF ~EndsInPdf(file) THEN MsgExtension
    ELSE IF file.size > MAX_FILE_SIZE THEN MsgFileSize
    ELSE IF file.type # "" /\ file.type # "application/pdf" THEN MsgType
    ELSE IF ~StartsWithPdf(file) THEN MsgHeader
    ELSE IF file.parse # "ok" THEN MsgCorrupt
    ELSE IF file.numPages > 100 THEN MsgTooManyPages
    ELSE IF tp + file.numPages > 500 THEN MsgTotalPages
    ELSE NoMsg

(* C22: the checks are applied in the order file count of the batch,        *)
(* extension, size of the file, total size of the batch, type, signature,   *)
(* parse, pages of the document, pages of the registry: a batch is refused  *)
(* for its total size only when its first file passes the extension and     *)
(* size checks, and a file is refused with the reason of the first check    *)
(* of that order that it fails.                                             *)
C22_ChecksInOrder ==
    [][\A p \in 1..MaxCalls :
          /\ \A files \in Batches(scenario) :
                HandleFiles(p, files) =>
                    IF Len(files) > 20 THEN lastError' = MsgTooManyFiles
                    ELSE IF ReasonInOrder(files[1], 0) \in {MsgExtension, MsgFileSize}
                    THEN calls'[p].pc = "validate"
                    ELSE IF SumSize(files) > 200 * 1024 * 1024
                    THEN lastError' = MsgTotalSize /\ calls'[p].pc = "idle"
                    ELSE calls'[p].pc = "validate"
          /\ Validating(p) =>
                LET reason == ReasonInOrder(FileOf(p), totalPages)
                IN  IF reason = NoMsg
                    THEN calls'[p].pc = "process"
                    ELSE lastError' = reason /\ calls'[p].pc = "idle"]_vars

RECURSIVE IsSubseq(_, _)
IsSubseq(a, b) ==
    IF a = <<>> THEN TRUE
    ELSE IF b = <<>> THEN FALSE
    ELSE IF Head(a) = Head(b) THEN IsSubseq(Tail(a), Tail(b))
    ELSE IsSubseq(a, Tail(b))

(* the documents that call c has put into the registry so far *)
AcceptedSoFar(c) ==
    LET done == SelectSeq(SubSeq(c.batch, 1, c.i - 1),
                          LAMBDA f : f.parse = "ok" /\ f.preview)
    IN  [k \in 1..Len(done) |-> Doc(done[k])]

(* C23: the step that accepts a document appends it at the end of the       *)
(* registry, which grows by one; the validation step before it has added    *)
(* the page count of the document to totalPages, and the accepting step     *)
(* adds nothing more.  While only intake runs, the documents a call has     *)
(* accepted so far are in the registry in the order of the call's batch,    *)
(* also when two calls are in flight.                                       *)
C23_AcceptAppends ==
    /\ [](\A p \in 1..MaxCalls :
              calls[p].pc # "idle" => IsSubseq(AcceptedSoFar(calls[p]), pdfFiles))
    /\ [][\A p \in 1..MaxCalls :
              /\ ((Process(p) \/ PlainProcess(p)) /\ pdfFiles' # pdfFiles)
                    => /\ pdfFiles' = Append(pdfFiles, Doc(FileOf(p)))
                       /\ Len(pdfFiles') = Len(pdfFiles) + 1
                       /\ pdfFiles'[Len(pdfFiles')].pageCount = FileOf(p).numPages
                       /\ totalPages' = totalPages
              /\ (Validating(p) /\ calls'[p].pc = "process")
                    => totalPages' = totalPages + FileOf(p).numPages]_vars

C23_Witness ==
    /\ variant = "secure"
    /\ calls[1].pc = "validate" /\ calls[1].batch = <<FC, FA>> /\ calls[1].i = 2
    /\ calls[2].pc = "validate" /\ calls[2].batch = <<FC, FA>> /\ calls[2].i = 2
    /\ Len(pdfFiles) = 3
    /\ totalPages = 5

(* the name ends in a dot and the letters p, d, f, each in either case *)
EndsInDotPdf(name) ==
    /\ Len(name) >= 4
    /\ name[Len(name) - 3] = "."
    /\ name[Len(name) - 2] \in {"p", "P"}
    /\ name[Len(name) - 1] \in {"d", "D"}
    /\ name[Len(name)] \in {"f", "F"}

(* C24: a file is refused with the invalid-extension reason exactly when    *)
(* its name does not end in .pdf, the case of the letters left aside; a     *)
(* valid document whose name does end so passes validation.                 *)
C24_ExtensionCheck ==
    [][\A p \in 1..MaxCalls :
          Validating(p) =>
              IF EndsInDotPdf(FileOf(p).name)
              THEN calls'[p].pc = "process" /\ lastError' = lastError
              ELSE calls'[p].pc = "idle" /\ lastError' = MsgExtension]_vars

C24_Witness ==
    /\ calls[1].pc = "process"
    /\ FileOf(1).name = <<"x", ".", "P", "d", "F">>
    /\ lastError = MsgExtension

(* the thumbnails other than the dragged one whose midpoint is below y *)
Below(from, y, perRow) ==
    {k \in 1..Len(display) : k # from /\ Mid(k, perRow) > y}

(* C25: a run of the dragover listener puts the dragged thumbnail before    *)
(* the thumbnail, among the others, whose midpoint is below the pointer and *)
(* nearest to it, and at the end when no other thumbnail has its midpoint   *)
(* below the pointer; it throws no error.                                   *)
C25_DragAfterElement ==
    \A from \in 1..Len(display), y \in 0..(2 * OrderRegistry), perRow \in 1..OrderRegistry :
        LET run == DragOverOne(display, from, y, perRow)
        IN  /\ ~run.err
            /\ IF Below(from, y, perRow) = {}
               THEN run.dsp = MoveTo(display, from, Len(display) - 1)
               ELSE \E k \in Below(from, y, perRow) :
                       /\ \A j \in Below(from, y, perRow) :
                             Mid(k, perRow) <= Mid(j, perRow)
                       /\ run.dsp = MoveTo(display, from,
                                           IF k > from THEN k - 2 ELSE k - 1)

(* how many entries of the registry reg are the entry d *)
CountOf(d, reg) == Cardinality({k \in 1..Len(reg) : reg[k] = d})

(* the files the configuration submits *)
Submitted == UNION {{files[k] : k \in 1..Len(files)} : files \in Batches(scenario)}

(* C26: every entry of the registry holds a submitted file with its         *)
(* content and its page count as they were read at intake; no step makes an *)
(* entry that was not there, except for the one entry a step of intake      *)
(* appends.                                                                 *)
C26_EntriesImmutable ==
    /\ [](\A k \in 1..Len(pdfFiles) :
              /\ pdfFiles[k].file \in Submitted
              /\ pdfFiles[k].pageCount = pdfFiles[k].file.numPages)
    /\ [][/\ Len(pdfFiles') <= Len(pdfFiles) + 1
          /\ \A k \in 1..Len(pdfFiles') :
                CountOf(pdfFiles'[k], pdfFiles')
                    <= CountOf(pdfFiles'[k], pdfFiles)
                         + (IF Len(pdfFiles') = Len(pdfFiles) + 1 THEN 1 ELSE 0)]_vars

C26_Witness ==
    /\ variant = "plain"
    /\ pdfFiles = <<Doc(FC), Doc(FA)>>
    /\ display = <<Doc(FA), Doc(FC)>>
    /\ delivered = <<Pages(Doc(FC)) \o Pages(Doc(FA))>>

(* C27: when the timer of the preview fires and the preview has not loaded, *)
(* the error is shown and the preview is closed; the registry, totalPages   *)
(* and the merged document are left as they are, and the document can       *)
(* still be downloaded.                                                     *)
C27_TimeoutKeepsResult ==
    [][(PreviewTimeout(FALSE) /\ previewer.shown)
          => /\ lastError' = MsgPreviewTimeout
             /\ ~previewer'.shown
             /\ pdfFiles' = pdfFiles
             /\ totalPages' = totalPages
             /\ delivered' = delivered
             /\ previewer'.mergedPdfBlob = previewer.mergedPdfBlob]_vars

(* C28: whatever was accepted, moved and removed before, one click on the   *)
(* remove button of a document takes exactly that document out of the       *)
(* registry and throws no error.                                            *)
C28_RemoveClickRemovesOne ==
    \A index \in 0..(Len(pdfFiles) - 1) :
        LET s == RemoveHandlers(HandlersAt(Now), Now, index)
        IN  s.reg = Splice(pdfFiles, index) /\ ~s.err

(* C29: whatever was accepted, moved and removed before, one click on       *)
(* move-up of a document that is not the first puts it one place earlier,   *)
(* and one click on move-down of a document that is not the last puts it    *)
(* one place later, its neighbour taking its place.                         *)
C29_MoveClickMovesOne ==
    /\ \A index \in 1..(Len(pdfFiles) - 1) :
          MoveUpHandlers(HandlersAt(Now), Now, index).reg = Swap(pdfFiles, index + 1, index)
    /\ \A index \in 0..(Len(pdfFiles) - 2) :
          MoveDownHandlers(HandlersAt(Now), Now, index).reg = Swap(pdfFiles, index + 1, index + 2)

(* C30: whenever no handleFiles call and no merge is in flight, the merge   *)
(* button is enabled exactly when the registry holds a document.            *)
C30_MergeButtonFollowsRegistry ==
    ((\A p \in 1..MaxCalls : calls[p] = Idle) /\ (\A m \in 1..MaxMerges : merges[m] = MergeIdle))
        => (mergeBtnDisabled <=> pdfFiles = <<>>)

(* C31: at most one merge is in flight at any time.                         *)
C31_OneMergeInFlight ==
    Cardinality({m \in 1..MaxMerges : merges[m].pc # "idle"}) <= 1

(* C32: every merged document that was delivered, as a preview or as a      *)
(* download, holds the pages of at least one document.                      *)
C32_OutputNeverEmpty ==
    \A k \in 1..Len(delivered) : delivered[k] # <<>>

(* C33: a file that passes every check of its own, validated while no       *)
(* other call is in flight, is not refused by the aggregate check when its  *)
(* pages and those of the documents in the registry are 500 at most.        *)
C33_FittingFileAccepted ==
    [][\A p \in 1..MaxCalls :
          (/\ Validating(p)
           /\ \A q \in 1..MaxCalls : q # p => calls[q] = Idle
           /\ validateFileBasic(FileOf(p)) = "ok"
           /\ validateFileAdvanced(FileOf(p)) = "ok"
           /\ SumPages(pdfFiles) + FileOf(p).numPages <= MAX_PAGES)
             => (calls'[p].pc = "process" /\ lastError' = lastError)]_vars

C36_SignatureNeedsFourBytes ==
    [][\A p \in 1..MaxCalls :
          (Validating(p) /\ validateFileBasic(FileOf(p)) = "ok"
                         /\ FileOf(p).type \in {"", "application/pdf"})
             => (lastError' = MsgHeader <=> ~StartsWithPdf(FileOf(p)))]_vars

====
